---- MODULE Spec2Model ----
(***************************************************************************)
(* A model of archiver.py: a repository root holding a SQLite catalog      *)
(* (tables items, versions, config), a lock file and one blob per archive. *)
(* Every invocation of main() is a process that takes the fcntl lock,      *)
(* initializes the catalog, runs one handler (archive, restore, listItems, *)
(* config), runs cleanup and exits.  What lies outside the program is      *)
(* drawn nondeterministically: the exit code of tar, the size of a blob,   *)
(* the wall clock behind CURRENT_TIMESTAMP (which may be stepped back),    *)
(* the order of rows with equal timestamps, the failure of an os.remove.   *)
(***************************************************************************)
EXTENDS Integers, Sequences, FiniteSets, TLC

(***************************************************************************)
(* Bounds of the model.                                                    *)
(***************************************************************************)
\* number of concurrently running invocations (processes)
NumProc == 2
\* cap on the number of archive calls of a run, failed ones included
MaxArchives == 2
\* CURRENT_TIMESTAMP values are drawn from 1..MaxTime
MaxTime == 2
\* blob sizes (st_size) are drawn from 1..MaxSize
MaxSize == 2

Proc == 1..NumProc

\* Base names of the sources that get archived.  The second one is a file
\* whose own name has the shape of an archive filename.  The root holds only
\* what the archiver and tar put there: regular files.
Names == {"a", "a-1.tar.gz"}

LockFile == ".lock"
DbFile == "meta.db"

\* Status enum of the items table.
Status == {"Archived", "Restored", "Deleted", "Corrupted"}

None == "None"

(***************************************************************************)
(* Python integers are unbounded; byte counts such as 5 * 2^30 do not fit  *)
(* a 32-bit integer, so they are kept as two limbs hi * Limb + lo.         *)
(***************************************************************************)
Limb == 10^6

BigFromNat(n) == [hi |-> n \div Limb, lo |-> n % Limb]

BigMulSmall(b, n) ==
  [hi |-> b.hi * n + (b.lo * n) \div Limb, lo |-> (b.lo * n) % Limb]

BigDivSmall(b, d) ==
  [hi |-> b.hi \div d, lo |-> ((b.hi % d) * Limb + b.lo) \div d]

BigIsZero(b) == b.hi = 0 /\ b.lo = 0

\* a > b
BigGT(a, b) == a.hi > b.hi \/ (a.hi = b.hi /\ a.lo > b.lo)

(***************************************************************************)
(* Text: a string as the sequence of its characters.                       *)
(***************************************************************************)
DigitChars == <<"0", "1", "2", "3", "4", "5", "6", "7", "8", "9">>

IsDigit(c) == \E d \in 1..10 : DigitChars[d] = c

DigitVal(c) == (CHOOSE d \in 1..10 : DigitChars[d] = c) - 1

AllDigits(t) == \A i \in 1..Len(t) : IsDigit(t[i])

\* decimal digits of a natural below 2^31, most significant first
RECURSIVE NatToText(_)
NatToText(n) ==
  IF n < 10 THEN <<DigitChars[n + 1]>>
  ELSE NatToText(n \div 10) \o <<DigitChars[(n % 10) + 1]>>

\* the low limb printed with leading zeros, as it follows a non-zero high limb
RECURSIVE PadLimb(_)
PadLimb(t) == IF 10^Len(t) >= Limb THEN t ELSE PadLimb(<<"0">> \o t)

\* str(n) / SQLite's integer-to-TEXT conversion of a bound parameter
IntToText(b) ==
  IF b.hi = 0 THEN NatToText(b.lo)
  ELSE NatToText(b.hi) \o PadLimb(NatToText(b.lo))

\* the number b followed by one more decimal digit d
AppendDigit(b, d) ==
  [hi |-> b.hi * 10 + (b.lo * 10 + d) \div Limb, lo |-> (b.lo * 10 + d) % Limb]

\* int(text) for a text of decimal digits; the value of the prefix is bound
\* once (as the element of a singleton) before the last digit is appended
RECURSIVE TextToInt(_)
TextToInt(t) ==
  IF t = <<>> THEN BigFromNat(0)
  ELSE CHOOSE r \in {AppendDigit(prefix, DigitVal(t[Len(t)])) :
                       prefix \in {TextToInt(SubSeq(t, 1, Len(t) - 1))}} : TRUE

(***************************************************************************)
(* convertSizeStringToInt and getConfig.                                   *)
(***************************************************************************)
SuffixChars == {"k", "m", "g", "t", "K", "M", "G", "T"}

\* mutant: every suffix is a binary multiplier, whatever its case
SuffixToMultiplierBinary(c) ==
  CASE c \in {"k", "K"} -> BigFromNat(2^10)
    [] c \in {"m", "M"} -> BigFromNat(2^20)
    [] c \in {"g", "G"} -> BigFromNat(2^30)
    [] c \in {"t", "T"} -> BigMulSmall(BigFromNat(2^30), 2^10)

\* the SuffixToMultiplier table: 10**3 .. 10**12 and 1 << 10 .. 1 << 40
SuffixToMultiplier(c) ==
  CASE c = "k" -> BigFromNat(10^3)
    [] c = "m" -> BigFromNat(10^6)
    [] c = "g" -> BigFromNat(10^9)
    [] c = "t" -> BigMulSmall(BigFromNat(10^9), 10^3)
    [] c = "K" -> BigFromNat(2^10)
    [] c = "M" -> BigFromNat(2^20)
    [] c = "G" -> BigFromNat(2^30)
    [] c = "T" -> BigMulSmall(BigFromNat(2^30), 2^10)

\* float(s) for a text over the characters - . 0..9 and the suffix letters:
\* an optional sign, digits, at most one point, at least one digit.  The
\* value is (neg ? -1 : 1) * num / den.
ParseFloat(t) ==
  LET neg == t # <<>> /\ t[1] = "-"
      body == IF neg THEN Tail(t) ELSE t
      dots == {i \in 1..Len(body) : body[i] = "."}
      dot == IF dots = {} THEN Len(body) + 1 ELSE CHOOSE i \in dots : TRUE
      whole == SubSeq(body, 1, dot - 1)
      frac == SubSeq(body, dot + 1, Len(body))
  IN [ok |-> /\ Cardinality(dots) <= 1
             /\ AllDigits(whole) /\ AllDigits(frac)
             /\ Len(whole) + Len(frac) > 0,
      neg |-> neg,
      num |-> IF AllDigits(whole \o frac) THEN TextToInt(whole \o frac).lo ELSE 0,
      den |-> 10^Len(frac)]

\* mutant: the conversion without its `if size <= 0` check
convertSizeUnchecked(s) ==
  IF s = <<>> THEN [result |-> "error", size |-> BigFromNat(0)]
  ELSE
    LET last == s[Len(s)]
        hasSuffix == last \in SuffixChars
        mult == IF hasSuffix THEN SuffixToMultiplier(last) ELSE BigFromNat(1)
        rest == IF hasSuffix THEN SubSeq(s, 1, Len(s) - 1) ELSE s
        f == ParseFloat(rest)
    IN IF ~f.ok THEN [result |-> "error", size |-> BigFromNat(0)]
       ELSE [result |-> "ok",
             size |-> IF f.neg THEN BigFromNat(0)
                      ELSE BigDivSmall(BigMulSmall(mult, f.num), f.den)]

\* result "ok" with the size, "fatal" (log(Level.Fatal ...), size <= 0) or
\* "error" (IndexError on the empty string, ValueError from float).
convertSizeStringToInt(s) ==
  IF s = <<>> THEN [result |-> "error", size |-> BigFromNat(0)]
  ELSE
    LET last == s[Len(s)]
        hasSuffix == last \in SuffixChars
        mult == IF hasSuffix THEN SuffixToMultiplier(last) ELSE BigFromNat(1)
        rest == IF hasSuffix THEN SubSeq(s, 1, Len(s) - 1) ELSE s
        f == ParseFloat(rest)
        \* int(size * float(s)) truncates toward zero
        magnitude == BigDivSmall(BigMulSmall(mult, f.num), f.den)
    IN IF ~f.ok THEN [result |-> "error", size |-> BigFromNat(0)]
       ELSE IF f.neg \/ BigIsZero(magnitude)
         THEN [result |-> "fatal", size |-> BigFromNat(0)]
         ELSE [result |-> "ok", size |-> magnitude]

\* the row inserted by initializeDatabase: ("size", "10737418240")
DefaultSize == <<"1", "0", "7", "3", "7", "4", "1", "8", "2", "4", "0">>

ConfigKeys == {"size"}

\* getConfig(conn, key): Converters[key](row["value"]) with Converters = {size: int}
getConfig(cfg, key) ==
  IF key \notin ConfigKeys THEN [result |-> "fatal", value |-> BigFromNat(0)]
  ELSE IF key \notin DOMAIN cfg THEN [result |-> "fatal", value |-> BigFromNat(0)]
  ELSE [result |-> "ok", value |-> TextToInt(cfg[key])]

\* "{base}-{version}.tar.gz".format(**locals())
ArchiveName(base, version) == base \o "-" \o ToString(version) \o ".tar.gz"

(***************************************************************************)
(* Finite maps (directory listing, config table, versions table).          *)
(***************************************************************************)
EmptyMap == [x \in {} |-> None]

Put(f, k, v) == [x \in (DOMAIN f) \cup {k} |-> IF x = k THEN v ELSE f[x]]

Restrict(f, S) == [x \in (DOMAIN f) \cap S |-> f[x]]

Range(q) == {q[i] : i \in 1..Len(q)}

(***************************************************************************)
(* State.                                                                  *)
(***************************************************************************)
VARIABLES
  pc,           \* position of each invocation in main()
  lockHolders,  \* processes holding the lockf lock on <root>/.lock
  req,          \* the handler call an invocation made and its outcome
  versions,     \* versions table: name -> version
  items,        \* items table: the set of its rows
  configTable,  \* config table: key -> value (TEXT)
  files,        \* entries directly under the root: name -> st_size
  written,      \* the size string of the last config write that succeeded
  pass,         \* what each running invocation's cleanup did
  issued        \* versions handed out by archive, per name, in issue order

vars ==
  <<pc, lockHolders, req, versions, items, configTable, files, pass, issued,
    written>>

NoReq ==
  [op |-> "none", item |-> None, hasVersion |-> FALSE, version |-> 0,
   mode |-> "none", value |-> <<>>, result |-> "none", out |-> BigFromNat(0)]

NoPass ==
  [ran |-> FALSE, completed |-> FALSE, before |-> {}, archives |-> <<>>,
   limit |-> BigFromNat(0), sizes |-> EmptyMap, evicted |-> {},
   sweepOk |-> FALSE]

\* the root directory exists and is empty; no catalog has been created yet
Init ==
  /\ pc = [p \in Proc |-> "idle"]
  /\ lockHolders = {}
  /\ req = [p \in Proc |-> NoReq]
  /\ versions = EmptyMap
  /\ items = {}
  /\ configTable = EmptyMap
  /\ files = EmptyMap
  /\ pass = [p \in Proc |-> NoPass]
  /\ issued = [n \in Names |-> <<>>]
  /\ written = <<>>

(***************************************************************************)
(* main: argument parsing, the lock, catalog initialization.               *)
(***************************************************************************)
\* main up to the os.open of exclusiveLock: the lock file is created
\* (O_CREAT) before the process blocks in lockf.
Invoke(p) ==
  /\ pc[p] = "idle"
  /\ pc' = [pc EXCEPT ![p] = "waiting"]
  /\ files' = IF LockFile \in DOMAIN files THEN files
              ELSE Put(files, LockFile, 0)
  /\ UNCHANGED <<lockHolders, req, versions, items, configTable, pass, issued, written>>

\* mutant: a shared lock (LOCK_SH) is granted whoever holds the lock
LockGrantableShared(p) == TRUE

\* fcntl.lockf(fd, LOCK_EX) grants the lock when no other process holds it
LockGrantable(p) == lockHolders \subseteq {p}

exclusiveLock(p) ==
  /\ pc[p] = "waiting"
  /\ LockGrantable(p)
  /\ lockHolders' = lockHolders \cup {p}
  /\ pc' = [pc EXCEPT ![p] = "locked"]
  /\ UNCHANGED <<req, versions, items, configTable, files, pass, issued, written>>

\* sqlite3.connect creates meta.db; INSERT OR IGNORE adds the default size
initializeDatabase(p) ==
  /\ pc[p] = "locked"
  /\ configTable' = IF "size" \in DOMAIN configTable THEN configTable
                    ELSE Put(configTable, "size", DefaultSize)
  /\ files' = IF DbFile \in DOMAIN files THEN files
              ELSE Put(files, DbFile, 0)
  /\ pc' = [pc EXCEPT ![p] = "dispatch"]
  /\ UNCHANGED <<lockHolders, req, versions, items, pass, issued, written>>

\* mutant: the retention pass runs only after a handler that changed something
afterHandlerIfChanged(changed) == IF changed THEN "cleanup" ELSE "returned"

\* main, after args.handler(args, conn) returns: cleanup(conn) comes next,
\* whatever the handler did (changed: the handler wrote to the catalog or root)
afterHandler(changed) == "cleanup"

\* mutant: a process that ends by sys.exit(1) or an exception leaves the
\* lock taken
ExitLeakingLock(p) ==
  /\ pc[p] \in {"returned", "aborted"}
  /\ lockHolders' = IF pc[p] = "aborted" THEN lockHolders ELSE lockHolders \ {p}
  /\ pc' = [pc EXCEPT ![p] = "idle"]
  /\ req' = [req EXCEPT ![p] = NoReq]
  /\ pass' = [pass EXCEPT ![p] = NoPass]
  /\ UNCHANGED <<versions, items, configTable, files, issued, written>>

\* the process ends: the lock's file descriptor is closed by the exit
Exit(p) ==
  /\ pc[p] \in {"returned", "aborted"}
  /\ lockHolders' = lockHolders \ {p}
  /\ pc' = [pc EXCEPT ![p] = "idle"]
  /\ req' = [req EXCEPT ![p] = NoReq]
  /\ pass' = [pass EXCEPT ![p] = NoPass]
  /\ UNCHANGED <<versions, items, configTable, files, issued, written>>

(***************************************************************************)
(* archive.                                                                *)
(***************************************************************************)
\* mutant: INSERT OR REPLACE resets the counter of a name that has a row
nextVersionReplace(vs, base) == Put(vs, base, 1)

\* INSERT OR IGNORE INTO versions (name, 0); UPDATE versions SET version + 1
nextVersion(vs, base) ==
  LET present == IF base \in DOMAIN vs THEN vs ELSE Put(vs, base, 0)
  IN [present EXCEPT ![base] = @ + 1]

\* the PRIMARY KEY (name, version) and UNIQUE archive constraints of items
InsertAllowed(rows, row) ==
  \A r \in rows :
    /\ ~(r.name = row.name /\ r.version = row.version)
    /\ r.archive # row.archive

RECURSIVE SumLen(_, _)
SumLen(f, S) ==
  IF S = {} THEN 0
  ELSE LET n == CHOOSE n \in S : TRUE IN Len(f[n]) + SumLen(f, S \ {n})

\* the number of archive calls made so far
ArchiveCalls == SumLen(issued, Names)

\* mutant: subprocess.call ignores tar's return code
insertRegardless(rows, row, returncode) == rows \cup {row}

\* subprocess.check_call(commands) raises when tar fails, so that the
\* INSERT INTO items that follows it runs only after a successful tar
insertAfterTar(rows, row, returncode) ==
  IF returncode = 0 THEN rows \cup {row} ELSE rows

archive(p) ==
  /\ pc[p] = "dispatch"
  /\ ArchiveCalls < MaxArchives
  /\ \E base \in Names, returncode \in {0, 2}, now \in 1..MaxTime :
       LET vs == nextVersion(versions, base)
           version == vs[base]
           name == ArchiveName(base, version)
           row == [name |-> base, version |-> version, timestamp |-> now,
                   status |-> "Archived", archive |-> name]
           call == [NoReq EXCEPT !.op = "a", !.item = base, !.version = version]
           \* sqlite3.IntegrityError on the PRIMARY KEY or UNIQUE constraint
           inserted == returncode = 0 /\ InsertAllowed(items, row)
       IN /\ versions' = vs
          /\ issued' = [issued EXCEPT ![base] = Append(@, version)]
          /\ IF returncode = 0
               THEN \* tar wrote the blob
                    \E size \in 1..MaxSize : files' = Put(files, name, size)
               ELSE \* tar failed: a partial blob may be left behind (no row
                    \* is built, so one timestamp stands for all)
                    /\ now = 1
                    /\ \/ files' = files
                       \/ files' = Put(files, name, 0)
          /\ items' = IF returncode = 0 /\ ~inserted THEN items
                      ELSE insertAfterTar(items, row, returncode)
          /\ pc' = [pc EXCEPT ![p] = IF inserted THEN afterHandler(TRUE) ELSE "aborted"]
          /\ req' = [req EXCEPT ![p] =
               [call EXCEPT !.result = IF inserted THEN "ok" ELSE "error"]]
  /\ UNCHANGED <<lockHolders, configTable, pass, written>>

(***************************************************************************)
(* restore, listItems, config.                                             *)
(***************************************************************************)
\* mutant: the query without the status = 'Archived' condition
restoreRowsAnyStatus(rows, item, hasVersion, version) ==
  {r \in rows : r.name = item /\ (hasVersion => r.version = version)}

\* SELECT * FROM items WHERE status = 'Archived' AND name = :name
\*   [AND version = :version]
restoreRows(rows, item, hasVersion, version) ==
  {r \in rows :
     /\ r.status = "Archived"
     /\ r.name = item
     /\ hasVersion => r.version = version}

\* UPDATE items SET status = :status WHERE name = :name AND version = :version
markStatus(rows, name, version, status) ==
  {IF r.name = name /\ r.version = version
     THEN [r EXCEPT !.status = status] ELSE r : r \in rows}

restore(p) ==
  /\ pc[p] = "dispatch"
  /\ \E item \in Names, hasVersion \in BOOLEAN, v \in 1..MaxArchives :
       LET version == IF hasVersion THEN v ELSE 0
           call == [NoReq EXCEPT !.op = "r", !.item = item,
                      !.hasVersion = hasVersion, !.version = version]
           rows == restoreRows(items, item, hasVersion, version)
       IN /\ hasVersion \/ v = 1
          /\ IF Cardinality(rows) # 1
               THEN \* log(Level.Fatal, ...): not found, or ambiguous
                    /\ items' = items
                    /\ pc' = [pc EXCEPT ![p] = "aborted"]
                    /\ req' = [req EXCEPT ![p] = [call EXCEPT !.result = "fatal"]]
               ELSE LET row == CHOOSE r \in rows : TRUE
                    IN \E returncode \in {0, 1} :
                         \* tar -xzf fails when the blob is missing
                         /\ row.archive \notin DOMAIN files => returncode # 0
                         /\ items' = markStatus(items, item, row.version,
                                       IF returncode = 0 THEN "Restored"
                                       ELSE "Corrupted")
                         /\ pc' = [pc EXCEPT ![p] = afterHandler(TRUE)]
                         /\ req' = [req EXCEPT ![p] = [call EXCEPT !.result = "ok"]]
  /\ UNCHANGED <<lockHolders, versions, configTable, files, pass, issued, written>>

listItems(p) ==
  /\ pc[p] = "dispatch"
  /\ pc' = [pc EXCEPT ![p] = afterHandler(FALSE)]
  /\ req' = [req EXCEPT ![p] = [NoReq EXCEPT !.op = "l", !.result = "ok"]]
  /\ UNCHANGED <<lockHolders, versions, items, configTable, files, pass, issued, written>>

\* the size strings given to `c --size <value>`
SizeStrings == {<<"1">>, <<"0">>, <<"-", "1">>, <<"5", "g">>}

\* config with a value: UPDATE config SET value = converter(value)
configWrite(p, strings) ==
  /\ pc[p] = "dispatch"
  /\ \E s \in strings : \E converted \in {convertSizeStringToInt(s)} :
       LET call == [NoReq EXCEPT !.op = "c", !.mode = "write", !.value = s,
                      !.result = converted.result, !.out = converted.size]
       IN /\ req' = [req EXCEPT ![p] = call]
          /\ IF converted.result = "ok"
               THEN /\ configTable' =
                         IF "size" \in DOMAIN configTable
                           THEN [configTable EXCEPT
                                   !["size"] = IntToText(converted.size)]
                           ELSE configTable
                    /\ written' = s
                    /\ pc' = [pc EXCEPT ![p] = afterHandler(TRUE)]
               ELSE /\ configTable' = configTable
                    /\ written' = written
                    /\ pc' = [pc EXCEPT ![p] = "aborted"]
  /\ UNCHANGED <<lockHolders, versions, items, files, pass, issued>>

\* config without a value (`c --size`) or without the option (`c`):
\* print getConfig(conn, key)
configRead(p) ==
  /\ pc[p] = "dispatch"
  /\ \E mode \in {"read", "show"}, got \in {getConfig(configTable, "size")} :
          /\ req' = [req EXCEPT ![p] =
               [NoReq EXCEPT !.op = "c", !.mode = mode,
                  !.result = got.result, !.out = got.value]]
          /\ pc' = [pc EXCEPT ![p] =
               IF got.result = "ok" THEN afterHandler(FALSE) ELSE "aborted"]
  /\ UNCHANGED <<lockHolders, versions, items, configTable, files, pass, issued, written>>

config(p) == configWrite(p, SizeStrings) \/ configRead(p)

\* size strings with every suffix, a fraction, a zero, a negative number and
\* a suffix without a number
ConfigStrings ==
  {<<"5", "g">>, <<"5", "G">>, <<"2", "k">>, <<"2", "K">>, <<"3", "m">>,
   <<"3", "M">>, <<"1", "t">>, <<"1", "T">>, <<"1", ".", "5", "K">>,
   <<"1", "2">>, <<"0">>, <<"0", ".", "5">>, <<"-", "1">>, <<"g">>}

configAny(p) == configWrite(p, ConfigStrings) \/ configRead(p)

(***************************************************************************)
(* cleanup: the retention pass and the directory sweep.                    *)
(***************************************************************************)
\* SELECT archive FROM items WHERE status = 'Archived' ORDER BY timestamp ASC:
\* every order of the Archived rows with non-decreasing timestamps (the
\* order among equal timestamps is not fixed by the query).
RECURSIVE OrderByTimestamp(_)
OrderByTimestamp(rows) ==
  IF rows = {} THEN {<<>>}
  ELSE UNION {{<<r.archive>> \o q : q \in OrderByTimestamp(rows \ {r})} :
                r \in {r \in rows : \A o \in rows : r.timestamp <= o.timestamp}}

\* mutant: the query without its ORDER BY clause, rows in any order
RECURSIVE AnyOrder(_)
AnyOrder(rows) ==
  IF rows = {} THEN {<<>>}
  ELSE UNION {{<<r.archive>> \o q : q \in AnyOrder(rows \ {r})} : r \in rows}

selectUnordered(rows) == AnyOrder({r \in rows : r.status = "Archived"})

\* mutant: the query selects every row that is not Deleted
selectNotDeleted(rows) ==
  OrderByTimestamp({r \in rows : r.status # "Deleted"})

selectArchived(rows) ==
  OrderByTimestamp({r \in rows : r.status = "Archived"})

\* totalSize += os.stat(path.join(root, archive)).st_size
RECURSIVE totalSizeOf(_, _)
totalSizeOf(archives, dir) ==
  IF archives = <<>> THEN 0
  ELSE dir[Head(archives)] + totalSizeOf(Tail(archives), dir)

\* mutant: the loop stops before the last, newest archive
RECURSIVE evictLoopKeepNewest(_, _, _, _)
evictLoopKeepNewest(archives, dir, totalSize, limitSize) ==
  IF Len(archives) <= 1 THEN {}
  ELSE IF BigGT(BigFromNat(totalSize), limitSize)
    THEN {Head(archives)} \cup
         evictLoopKeepNewest(Tail(archives), dir,
                             totalSize - dir[Head(archives)], limitSize)
    ELSE evictLoopKeepNewest(Tail(archives), dir, totalSize, limitSize)

\* for archive in archives: if totalSize > limitSize: ... totalSize -= size;
\* the archives the loop decides to delete
RECURSIVE evictLoop(_, _, _, _)
evictLoop(archives, dir, totalSize, limitSize) ==
  IF archives = <<>> THEN {}
  ELSE IF BigGT(BigFromNat(totalSize), limitSize)
    THEN {Head(archives)} \cup
         evictLoop(Tail(archives), dir, totalSize - dir[Head(archives)],
                   limitSize)
    ELSE evictLoop(Tail(archives), dir, totalSize, limitSize)

\* UPDATE items SET status = 'Deleted' WHERE name = :name, with :name bound
\* to the archive filename, once per evicted archive
markDeleted(rows, evicted) ==
  {IF r.name \in evicted THEN [r EXCEPT !.status = "Deleted"] ELSE r : r \in rows}

\* the body of cleanup, run by p at position `at`
retentionPass(p, at) ==
  /\ pc[p] = at
  /\ \E archives \in selectArchived(items), got \in {getConfig(configTable, "size")} :
       LET limitSize == got.value
           missing == {a \in Range(archives) : a \notin DOMAIN files}
       IN IF got.result # "ok" \/ missing # {}
            THEN \* getConfig is fatal, or os.stat raises OSError
                 /\ pc' = [pc EXCEPT ![p] = "aborted"]
                 /\ pass' = [pass EXCEPT ![p] =
                      [NoPass EXCEPT !.ran = TRUE, !.before = items,
                         !.archives = archives]]
                 /\ UNCHANGED <<items, files>>
            ELSE LET totalSize == totalSizeOf(archives, files)
                     evicted == evictLoop(archives, files, totalSize, limitSize)
                     excludeFromDeletion ==
                       (Range(archives) \ evicted) \cup {DbFile, LockFile}
                     swept == {f \in DOMAIN files : f \notin excludeFromDeletion}
                 IN \* deleteFileOrDirectory: each os.remove may fail, which
                    \* is only logged
                    \E failed \in SUBSET swept :
                      /\ items' = markDeleted(items, evicted)
                      /\ files' = Restrict(files, (DOMAIN files \ swept) \cup failed)
                      /\ pc' = [pc EXCEPT ![p] = "returned"]
                      /\ pass' = [pass EXCEPT ![p] =
                           [ran |-> TRUE, completed |-> TRUE, before |-> items,
                            archives |-> archives, limit |-> limitSize,
                            sizes |-> Restrict(files, Range(archives)),
                            evicted |-> evicted, sweepOk |-> failed = {}]]
  /\ UNCHANGED <<lockHolders, req, versions, configTable, issued, written>>

\* cleanup(conn, **vars(args)), called by main after the handler
cleanup(p) == retentionPass(p, "cleanup")

\* cleanup called once more on the state its completed run has left, with
\* nothing in between
cleanupAgain(p) == pass[p].completed /\ retentionPass(p, "returned")

(***************************************************************************)
(* Specification.                                                          *)
(***************************************************************************)
Next ==
  \/ \E p \in Proc : Invoke(p)
  \/ \E p \in Proc : exclusiveLock(p)
  \/ \E p \in Proc : initializeDatabase(p)
  \/ \E p \in Proc : archive(p)
  \/ \E p \in Proc : restore(p)
  \/ \E p \in Proc : listItems(p)
  \/ \E p \in Proc : config(p)
  \/ \E p \in Proc : cleanup(p)
  \/ \E p \in Proc : Exit(p)

Spec == Init /\ [][Next]_vars

\* invocations of the config command only, over a wider set of size strings
NextConfig ==
  \/ \E p \in Proc : Invoke(p)
  \/ \E p \in Proc : exclusiveLock(p)
  \/ \E p \in Proc : initializeDatabase(p)
  \/ \E p \in Proc : configAny(p)
  \/ \E p \in Proc : cleanup(p)
  \/ \E p \in Proc : Exit(p)

SpecConfig == Init /\ [][NextConfig]_vars

\* invocations that may repeat their retention pass before they exit
NextTwice ==
  \/ Next
  \/ \E p \in Proc : cleanupAgain(p)

SpecTwice == Init /\ [][NextTwice]_vars

\* archive, as the first archive call made on the repository
firstArchive(p) == ArchiveCalls = 0 /\ archive(p)

\* the steps of an invocation that holds the lock: its handler, the tar and
\* sqlite calls inside it, cleanup and the exit of the process
Run(p) ==
  \/ initializeDatabase(p)
  \/ firstArchive(p) \/ restore(p) \/ listItems(p) \/ config(p)
  \/ cleanup(p)
  \/ Exit(p)

\* invocations of every command, with one archive call at most
NextFair ==
  \/ \E p \in Proc : Invoke(p)
  \/ \E p \in Proc : exclusiveLock(p)
  \/ \E p \in Proc : Run(p)

\* the scheduling the program runs under: an invocation inside the lock
\* keeps running until it has exited (its external calls terminate), and
\* lockf(LOCK_EX) blocks until the lock is granted, which happens for every
\* waiter if the lock is granted fairly
SpecFair ==
  /\ Init /\ [][NextFair]_vars
  /\ \A p \in Proc : WF_vars(Run(p))
  /\ \A p \in Proc : SF_vars(exclusiveLock(p))

(***************************************************************************)
(* Properties.                                                             *)
(***************************************************************************)
\* positions between the return of lockf and the exit of the process
InsideLock == {"locked", "dispatch", "cleanup", "returned", "aborted"}

\* the blobs in the root: every entry but the lock file and the catalog
Blobs(dir) == Restrict(dir, DOMAIN dir \ {LockFile, DbFile})

\* C1: at most one invocation is between lock acquisition and process exit,
\* and every step that writes the catalog (versions, items, config) or
\* creates or deletes a blob is taken by an invocation that holds the lock
\* while every other invocation is outside it, so that the writes of two
\* invocations never interleave.
C1_Serialized ==
  /\ [](Cardinality({p \in Proc : pc[p] \in InsideLock}) <= 1)
  /\ [][(\/ versions' # versions
         \/ items' # items
         \/ configTable' # configTable
         \/ Blobs(files') # Blobs(files))
        => \E p \in Proc :
             /\ pc'[p] # pc[p]
             /\ pc[p] \in InsideLock
             /\ lockHolders = {p}
             /\ \A q \in Proc \ {p} : pc[q] \notin InsideLock]_vars

\* an invocation has archived and is about to run cleanup while the other
\* one is blocked in lockf
C1_Witness ==
  \E p, q \in Proc :
    /\ pc[p] = "cleanup" /\ req[p].op = "a" /\ items # {}
    /\ pc[q] = "waiting"

\* C2: for every name the versions issued are 1, 2, 3, ... in issue order.
C2_VersionsConsecutive ==
  \A n \in Names : \A i \in 1..Len(issued[n]) : issued[n][i] = i

\* a second version of a name was issued by an archive whose tar failed,
\* after the item of the first version had left status Archived
C2_Witness ==
  \E p \in Proc, n \in Names :
    /\ issued[n] = <<1, 2>>
    /\ pc[p] = "aborted" /\ req[p].op = "a" /\ req[p].item = n
    /\ \E r \in items : r.name = n /\ r.version = 1
    /\ \A r \in items : r.name = n => r.status # "Archived"

\* the sum of the sizes of the blobs on disk of the rows with status Archived
RECURSIVE ArchivedOnDisk(_, _)
ArchivedOnDisk(rows, dir) ==
  IF rows = {} THEN 0
  ELSE LET r == CHOOSE r \in rows : TRUE
       IN (IF r.status = "Archived" /\ r.archive \in DOMAIN dir
             THEN dir[r.archive] ELSE 0)
          + ArchivedOnDisk(rows \ {r}, dir)

\* C3: after a cleanup that completes, the blobs on disk of the Archived
\* items sum to at most the configured size.
C3_WithinLimit ==
  \A p \in Proc :
    pc[p] = "returned" =>
      ~BigGT(BigFromNat(ArchivedOnDisk(items, files)),
             getConfig(configTable, "size").value)

\* the rows that had status Archived when the pass of p started
ArchivedBefore(p) == {r \in pass[p].before : r.status = "Archived"}

\* C4: a cleanup never evicts an item while it retains an Archived item with
\* an older timestamp: the evicted items are a prefix of the Archived items
\* in ascending timestamp order.
C4_OldestFirst ==
  \A p \in Proc :
    pc[p] = "returned" =>
      \A e, r \in ArchivedBefore(p) :
        (e.archive \in pass[p].evicted /\ r.archive \notin pass[p].evicted)
          => e.timestamp <= r.timestamp

\* a pass evicted the row inserted second and kept the one inserted first,
\* whose timestamp is later
C4_Witness ==
  \E p \in Proc :
    /\ pc[p] = "returned"
    /\ \E e, r \in ArchivedBefore(p) :
         /\ e.archive \in pass[p].evicted /\ r.archive \notin pass[p].evicted
         /\ e.name = r.name /\ e.version > r.version
         /\ e.timestamp < r.timestamp

\* C5: after a cleanup that evicted an item, the item has status Deleted and
\* its blob is not in the root.
C5_EvictedDeleted ==
  \A p \in Proc :
    pc[p] = "returned" =>
      \A r \in items :
        r.archive \in pass[p].evicted =>
          r.status = "Deleted" /\ r.archive \notin DOMAIN files

\* C6: after a cleanup whose deletions all succeeded, every entry of the
\* root is meta.db, .lock or the archive of an item that is not Deleted.
C6_RootReconciled ==
  \A p \in Proc :
    (pc[p] = "returned" /\ pass[p].sweepOk) =>
      \A f \in DOMAIN files :
        \/ f \in {DbFile, LockFile}
        \/ \E r \in items : r.archive = f /\ r.status # "Deleted"

\* the Archived rows a restore call of p matches, from the arguments given
Matching(rows, call) ==
  {r \in rows : /\ r.status = "Archived"
                /\ r.name = call.item
                /\ call.hasVersion => r.version = call.version}

\* C7: a restore that matches no Archived row, or more than one, is fatal
\* and changes no item; one that matches exactly one row changes the status
\* of that row only, to Restored or Corrupted.
C7_RestoreTarget ==
  [][\A p \in Proc :
       (pc[p] = "dispatch" /\ req'[p].op = "r") =>
         LET rows == Matching(items, req'[p])
         IN IF Cardinality(rows) # 1
              THEN /\ pc'[p] = "aborted"
                   /\ req'[p].result = "fatal"
                   /\ items' = items
              ELSE /\ pc'[p] = "cleanup"
                   /\ \E r \in rows, st \in {"Restored", "Corrupted"} :
                        items' = (items \ {r}) \cup {[r EXCEPT !.status = st]}]_vars

\* a restore without a version was rejected as ambiguous: two versions of
\* the name are Archived
C7_Witness ==
  \E p \in Proc :
    /\ pc[p] = "aborted" /\ req[p].op = "r" /\ ~req[p].hasVersion
    /\ req[p].result = "fatal"
    /\ Cardinality({r \in items : r.status = "Archived" /\ r.name = req[p].item}) = 2

\* C8: items are created Archived, and the only status changes are from
\* Archived to Restored, Corrupted or Deleted.
C8_StatusTransitions ==
  [][/\ \A r \in items :
          \E n \in items' :
            /\ n.name = r.name /\ n.version = r.version
            /\ n.status = r.status \/ r.status = "Archived"
     /\ \A n \in items' :
          (\A r \in items : ~(r.name = n.name /\ r.version = n.version))
            => n.status = "Archived"]_vars

\* C9: an archive whose tar fails inserts no row: the items table is as it
\* was, and only the version counter of the name has advanced.
C9_FailedArchive ==
  [][\A p \in Proc :
       (pc[p] = "dispatch" /\ req'[p].op = "a" /\ pc'[p] = "aborted") =>
         /\ items' = items
         /\ \A r \in items' :
              ~(r.name = req'[p].item /\ r.version = req'[p].version)
         /\ versions'[req'[p].item] =
              (IF req'[p].item \in DOMAIN versions
                 THEN versions[req'[p].item] ELSE 0) + 1
         /\ \A n \in DOMAIN versions :
              n # req'[p].item => versions'[n] = versions[n]]_vars

\* an archive failed leaving a partial blob; its version is consumed and
\* has no row
C9_Witness ==
  \E p \in Proc :
    /\ pc[p] = "aborted" /\ req[p].op = "a"
    /\ versions[req[p].item] = req[p].version
    /\ ArchiveName(req[p].item, req[p].version) \in DOMAIN files
    /\ \A r \in items : ~(r.name = req[p].item /\ r.version = req[p].version)

\* the byte counts of the size strings: k, m, g, t are powers of ten and
\* K, M, G, T are powers of two (<<string, high limb, low limb>>)
ExpectedSizes ==
  {<<<<"1">>, 0, 1>>,
   <<<<"1", "2">>, 0, 12>>,
   <<<<"2", "k">>, 0, 2000>>,
   <<<<"2", "K">>, 0, 2048>>,
   <<<<"1", ".", "5", "K">>, 0, 1536>>,
   <<<<"3", "m">>, 3, 0>>,
   <<<<"3", "M">>, 3, 145728>>,
   <<<<"5", "g">>, 5000, 0>>,
   <<<<"5", "G">>, 5368, 709120>>,
   <<<<"1", "t">>, 1000000, 0>>,
   <<<<"1", "T">>, 1099511, 627776>>}

ReadsConfig(p) ==
  req[p].op = "c" /\ req[p].mode \in {"read", "show"} /\ req[p].result = "ok"

\* C10 as stated: a read that follows the write of `5g` returns 5368709120.
C10_FiveGBinary ==
  \A p \in Proc :
    (ReadsConfig(p) /\ written = <<"5", "g">>) =>
      req[p].out = [hi |-> 5368, lo |-> 709120]

\* C10, amended: a read that follows the write of `5g` returns 5000000000
\* (`5G` gives 5368709120): the suffixes k, m, g, t multiply by 10^3, 10^6,
\* 10^9, 10^12 and K, M, G, T by 2^10, 2^20, 2^30, 2^40; the value read after
\* a successful write is the value written.
C10_SizeRoundTrip ==
  \A p \in Proc :
    /\ (ReadsConfig(p) /\ written # <<>>) =>
         \E e \in ExpectedSizes :
           e[1] = written /\ req[p].out = [hi |-> e[2], lo |-> e[3]]
    /\ (req[p].op = "c" /\ req[p].mode = "write" /\ req[p].result = "ok") =>
         /\ written = req[p].value
         /\ getConfig(configTable, "size").value = req[p].out

\* `c --size` prints 5000000000 after `c --size 5g`
C10_Witness ==
  \E p \in Proc :
    /\ ReadsConfig(p) /\ req[p].mode = "read" /\ pc[p] = "returned"
    /\ written = <<"5", "g">>
    /\ req[p].out = [hi |-> 5000, lo |-> 0]

\* the catalog has been initialized: meta.db exists
Initialized == DbFile \in DOMAIN files

\* the stored size is the decimal text of a positive integer
PositiveSize(cfg) ==
  /\ "size" \in DOMAIN cfg
  /\ cfg["size"] # <<>> /\ AllDigits(cfg["size"])
  /\ ~BigIsZero(TextToInt(cfg["size"]))

\* C11: once the catalog is initialized the config table always has the key
\* size with a positive integer value; no step removes the row, and a config
\* write whose value converts to zero or less is fatal and leaves the stored
\* value as it was.
C11_SizePositive ==
  /\ [](Initialized => PositiveSize(configTable))
  /\ [][DOMAIN configTable \subseteq DOMAIN configTable']_vars
  /\ [][\A p \in Proc :
          (/\ pc[p] = "dispatch" /\ req'[p].op = "c" /\ req'[p].mode = "write"
           /\ req'[p].value \in {<<"0">>, <<"-", "1">>, <<"0", ".", "5">>})
            => /\ req'[p].result = "fatal"
               /\ pc'[p] = "aborted"
               /\ configTable' = configTable]_vars

\* `c --size 0` was rejected after `c --size 1` had succeeded: the table
\* still holds 1
C11_Witness ==
  \E p \in Proc :
    /\ pc[p] = "aborted" /\ req[p].op = "c" /\ req[p].value = <<"0">>
    /\ req[p].result = "fatal"
    /\ written = <<"1">> /\ configTable["size"] = <<"1">>

\* C12: an invocation whose operation returns without a fatal error runs
\* the retention pass exactly once: the pass starts right after the operation,
\* whether or not the operation changed anything, it is the only pass of the
\* invocation, and it is over before the lock is released.
C12_PassOncePerInvocation ==
  /\ [][\A p \in Proc :
          (pc[p] = "dispatch" /\ pc'[p] # "dispatch" /\ req'[p].result = "ok")
            => (pc'[p] = "cleanup" /\ ~pass'[p].ran /\ p \in lockHolders')]_vars
  /\ [][\A p \in Proc :
          (pc'[p] = "cleanup" /\ pc[p] # "cleanup") => pc[p] = "dispatch"]_vars
  /\ [][\A p \in Proc :
          (pc[p] = "cleanup" /\ pc'[p] # "cleanup")
            => /\ ~pass[p].ran /\ pass'[p].ran
               /\ p \in lockHolders /\ p \in lockHolders'
               /\ pc'[p] \in {"returned", "aborted"}]_vars
  /\ [][\A p \in Proc :
          (pass[p].ran /\ pc'[p] # "idle") => pass'[p] = pass[p]]_vars
  /\ [][\A p \in Proc :
          (p \in lockHolders /\ p \notin lockHolders' /\ req[p].result = "ok")
            => pass[p].ran]_vars

\* a listing, which changes nothing, has had its retention pass and still
\* holds the lock
C12_Witness ==
  \E p \in Proc :
    /\ pc[p] = "returned" /\ req[p].op = "l" /\ req[p].result = "ok"
    /\ pass[p].ran /\ pass[p].completed /\ p \in lockHolders

\* the Archived rows whose blob is not in the root
MissingBlobs(rows, dir) ==
  {r \in rows : r.status = "Archived" /\ r.archive \notin DOMAIN dir}

\* C13: a retention pass that meets an Archived item whose blob is missing
\* counts the item as size zero and completes; it does not abort.
C13_MissingBlobTolerated ==
  [][\A p \in Proc :
       (/\ pc[p] = "cleanup" /\ pc'[p] # "cleanup"
        /\ "size" \in DOMAIN configTable
        /\ MissingBlobs(items, files) # {})
         => (pc'[p] = "returned" /\ pass'[p].completed)]_vars

\* C14: an invocation holds the lock from the moment lockf grants it until
\* the process ends, by a normal return, a fatal exit or an exception alike,
\* and gives it up at that end and not before; so, when external calls
\* terminate and the lock is granted fairly, every invocation blocked on the
\* lock eventually acquires it.
C14_LockHeldUntilExit ==
  /\ [](\A p \in Proc : p \in lockHolders <=> pc[p] \in InsideLock)
  /\ [][\A p \in Proc :
          (p \in lockHolders /\ p \notin lockHolders')
            => (pc[p] \in {"returned", "aborted"} /\ pc'[p] = "idle")]_vars
  /\ \A p \in Proc : (pc[p] \in {"returned", "aborted"}) ~> (p \notin lockHolders)
  /\ \A p \in Proc : (pc[p] = "waiting") ~> (pc[p] = "locked")

\* one invocation is blocked in lockf while the holder has ended its run by a
\* fatal error and has not exited yet
C14_Witness ==
  \E p, q \in Proc :
    /\ pc[p] = "waiting" /\ p \notin lockHolders
    /\ pc[q] = "aborted" /\ req[q].result = "fatal" /\ q \in lockHolders

\* p's pass has completed over at least one Archived item, and the limit is
\* smaller than the blob of every Archived item it found
AllOverLimit(p) ==
  /\ pc[p] = "returned" /\ pass[p].completed
  /\ pass[p].archives # <<>>
  /\ \A a \in Range(pass[p].archives) :
       BigGT(BigFromNat(pass[p].sizes[a]), pass[p].limit)

\* the archive the query returned last, that of the newest Archived item
NewestArchive(p) == pass[p].archives[Len(pass[p].archives)]

\* C15 (as stated): when the limit is smaller than the blob of every Archived
\* item, the pass leaves exactly the newest item Archived with its blob on
\* disk and evicts all the older ones.
C15_NewestKept ==
  \A p \in Proc :
    AllOverLimit(p) =>
      /\ pass[p].evicted = Range(pass[p].archives) \ {NewestArchive(p)}
      /\ NewestArchive(p) \in DOMAIN files
      /\ \E r \in items : r.archive = NewestArchive(p) /\ r.status = "Archived"

\* C15 (amended): when the limit is smaller than the blob of every Archived
\* item, the pass evicts every one of them, the newest included: none is
\* excluded from the sweep, and none of their blobs is left in the root when
\* the deletions succeed.
C15_AllEvicted ==
  \A p \in Proc :
    AllOverLimit(p) =>
      /\ pass[p].evicted = Range(pass[p].archives)
      /\ pass[p].sweepOk =>
           \A a \in Range(pass[p].archives) : a \notin DOMAIN files

\* two Archived items, each larger than the limit: the pass has evicted both
\* and deleted both blobs
C15_Witness ==
  \E p \in Proc :
    /\ AllOverLimit(p) /\ Len(pass[p].archives) = 2
    /\ pass[p].evicted = Range(pass[p].archives)
    /\ pass[p].sweepOk
    /\ DOMAIN Blobs(files) = {}

\* C16: a retention pass changes the status only of the items it evicts:
\* every item whose archive the pass did not evict has the same status after
\* the pass as before it, whatever its name, a name equal to another item's
\* archive filename included.
C16_OnlyEvictedChange ==
  [][\A p \in Proc :
       (pc[p] = "cleanup" /\ pc'[p] = "returned")
         => \A r \in items :
              r.archive \notin pass'[p].evicted => r \in items']_vars

\* C17: after every invocation that completes, its operation and its
\* retention pass included and the sweep's deletions succeeding, every item
\* with status Archived has its blob in the root.
C17_ArchivedHasBlob ==
  \A p \in Proc :
    (pc[p] = "returned" /\ pass[p].completed /\ pass[p].sweepOk)
      => MissingBlobs(items, files) = {}

\* the rows a restore has set to Restored or Corrupted
Extracted(rows) == {r \in rows : r.status \in {"Restored", "Corrupted"}}

\* C18 (as stated): the root keeps the blob of every item with status
\* Restored or Corrupted, as it does for Archived ones: after a restore has
\* set the status, the blob is still in the root after the retention pass of
\* the same invocation and of later ones.
C18_RestoredBlobKept ==
  \A p \in Proc :
    (pc[p] = "returned" /\ pass[p].completed)
      => \A r \in Extracted(items) : r.archive \in DOMAIN files

\* C18 (amended): the root keeps no blob for an item with status Restored or
\* Corrupted once a retention pass has completed with its deletions
\* succeeding: the pass excludes from the sweep only the archives of Archived
\* items, so the pass of the restoring invocation deletes the blob.
C18_RestoredBlobSwept ==
  \A p \in Proc :
    (pc[p] = "returned" /\ pass[p].completed /\ pass[p].sweepOk)
      => \A r \in Extracted(items) : r.archive \notin DOMAIN files

\* a restore has set an item Restored, the pass of the same invocation has
\* completed, and the item's blob is gone
C18_Witness ==
  \E p \in Proc :
    /\ pc[p] = "returned" /\ req[p].op = "r"
    /\ pass[p].completed /\ pass[p].sweepOk
    /\ \E r \in items :
         /\ r.name = req[p].item /\ r.status = "Restored"
         /\ r \in pass[p].before
         /\ r.archive \notin DOMAIN files

\* C19: the retention pass is idempotent: on a state reached after a
\* completed pass, running the pass again with no operation in between
\* completes without error and changes no item status and no file.  (Stated
\* here for passes whose deletions all succeeded, which the claim includes.)
C19_PassIdempotent ==
  [][\A p \in Proc :
       (pc[p] = "returned" /\ pass[p].sweepOk /\ pc'[p] # "idle")
         => (pc'[p] = "returned" /\ items' = items /\ files' = files)]_vars

====
